---- MODULE Spec2Model ----
(***************************************************************************)
(* A state-machine model of xzspider2.py: the XZSpider crawler.            *)
(*                                                                         *)
(* One asyncio event loop runs main(), one task per listing page, one task *)
(* per article pipeline and one task per image of an article.  A step of   *)
(* the model is the code a task runs between two suspension points (an     *)
(* await that really waits: a network answer, a file operation, a read     *)
(* from the cookie generator, a semaphore or the lock).                    *)
(*                                                                         *)
(* The environment (the remote site, the cookie generator process, the     *)
(* file system) is nondeterministic: each answer is drawn from a small set *)
(* of shapes, one per branch the code takes on it.                         *)
(***************************************************************************)
EXTENDS Naturals, Integers, Sequences, FiniteSets, TLC

\* ------------------------------------------------------------ bounds
MaxPages == 2        \* pages given on the command line: 1..MaxPages
MaxIds == 2          \* article ids the listings can name: 1..MaxIds
MaxLimit == 2        \* --limit ranges over 1..MaxLimit
MaxPageLimit == 2    \* --page-limit ranges over 1..MaxPageLimit

\* ------------------------------------------------- program constants
SentinelId == 18812      \* init_cookie: the article fetched to get cookies
ImageSemFactor == 8     \* __init__: Semaphore(limit * 8)

Pages == 1..MaxPages
Ids == 1..MaxIds

\* A task of the article tier is named by the page that dispatched it and
\* the article id; init_cookie's request is the task <<0, SentinelId>>.
Sentinel == <<0, SentinelId>>
Pipelines == Pages \X Ids
Tasks == {Sentinel} \cup Pipelines
IdOf(t) == t[2]
PageOf(t) == t[1]

VARIABLES
    limit,              \* constructor argument limit
    page_limit,         \* constructor argument page_limit
    ignore_exists,      \* constructor argument ignore_exists
    pages,              \* --pages: the pages to scrape
    content,            \* the site: id -> the elements of the article's content
    mainPc,             \* where main() is
    pagePc,             \* page -> where fetch_page(page) is
    links,              \* page -> the ids fetch_page_links returned
    res,                \* page -> the tasks fetch_page gathered
    summary,            \* page -> the counts fetch_page logged when it returned
    pc,                 \* task -> where the article pipeline / request is
    fetches,            \* task -> number of GETs _make_article_req issued
    tree,               \* task -> the soup: the state of each element
    imgPc,              \* task -> where each element's image task is
    page_sem,           \* free permits of _page_sem
    news_sem,           \* free permits of _news_sem
    image_sem,          \* free permits of _image_sem
    cookie_proc_lock,   \* _cookie_proc_lock is locked
    cookie_proc,        \* _cookie_proc: 0 is None, else the process
    procState,          \* process -> unborn / alive / exited / reaped
    talk,               \* task -> the process it wrote its token to (0: none)
    timedOut,           \* the processes a readline timed out on
    closeProc,          \* the process close() is terminating (0: none)
    cookie,             \* the acw_sc__v2 cookie in the jar (<<>>: not set)
    fetched_index,      \* fetched_index: id -> title
    files,              \* the image files that exist under save_path
    rewrites,           \* image files opened "wb" when they already existed
    docs                \* the .md files written: article directory -> rendering

vars == << limit, page_limit, ignore_exists, pages, content, mainPc, pagePc, links, res,
           summary,
           pc, fetches, tree, imgPc, page_sem, news_sem, image_sem,
           cookie_proc_lock, cookie_proc, procState, talk, timedOut, closeProc,
           cookie, fetched_index, files, rewrites, docs >>

configVars == << limit, page_limit, ignore_exists, pages, content >>
pageVars == << pagePc, links, res, summary >>
solverVars == << cookie_proc_lock, cookie_proc, procState, talk, timedOut, closeProc,
                cookie >>
diskVars == << fetched_index, files, rewrites, docs >>
imageVars == << tree, imgPc, image_sem >>

\* ------------------------------------------------ elements of a content
\* An element of an article's content, with what the site answers for it:
\*   tag      img | imagecard | codeblock   (the three soup.select loops)
\*   form     how the src / JSON value reads: data (a data: URI), url (an
\*            absolute http(s) URL), other (neither), badjson (a card whose
\*            JSON does not decode or lacks the key), code (a codeblock's JSON)
\*   dmime    data: the mime type IMAGE_DATA_RE captures ("" when no match)
\*   b64ok    data: the payload is strict base64
\*   key      data: the decoded bytes; url: the path of the URL
\*   host     url: the host
\*   pathext  url: splitext of the path, lower-cased
\*   status   url: the answer to the GET: ok | http_err | conn_err
\*   ctype    url: the answer's content type
\*   magic    url: the mime type libmagic finds in the bytes
\*   werr     writing the image file fails
Elem(tag, form, dmime, b64ok, key, host, pathext, status, ctype, magic, werr) ==
    [tag |-> tag, form |-> form, dmime |-> dmime, b64ok |-> b64ok, key |-> key,
     host |-> host, pathext |-> pathext, status |-> status, ctype |-> ctype,
     magic |-> magic, werr |-> werr]

Remote(tag, host, key, pathext, status, ctype, magic, werr) ==
    Elem(tag, "url", "", FALSE, key, host, pathext, status, ctype, magic, werr)
Embedded(tag, dmime, b64ok, key, werr) ==
    Elem(tag, "data", dmime, b64ok, key, "", "", "ok", "", "", werr)
Plain(tag, form) == Elem(tag, form, "", FALSE, 0, "", "", "ok", "", "", FALSE)

\* IMAGE_MIME.get(mime): "" stands for None
IMAGE_MIME(mime) ==
    CASE mime = "image/jpeg" -> ".jpg"
      [] mime = "image/png" -> ".png"
      [] mime = "image/bmp" -> ".bmp"
      [] mime = "image/gif" -> ".gif"
      [] mime = "image/webp" -> ".webp"
      [] mime = "image/svg+xml" -> ".svg"
      [] OTHER -> ""

AllowedExt == {".jpg", ".jpeg", ".png", ".bmp", ".gif", ".webp", ".svg"}

\* the hosts of the model that match w[wsx](\d+)\.sinaimg\.cn
SinaAliases == {"ws1.sinaimg.cn", "wx2.sinaimg.cn"}

\* _get_remote_image: the host the request goes to
CanonHost(host) ==
    IF host = "xianzhi.aliyuncs.com" THEN "xzfile.aliyuncs.com"
    ELSE IF host \in SinaAliases THEN "tva1.sinaimg.cn"
    ELSE host

\* _get_remote_image: the extension, "" when none is found
RemoteExt(e) ==
    IF e.pathext \in AllowedExt THEN e.pathext
    ELSE IF IMAGE_MIME(e.ctype) # "" THEN IMAGE_MIME(e.ctype)
    ELSE IMAGE_MIME(e.magic)

\* src = "img/" + sha256(...).hexdigest() + ext.  sha256 is taken to be
\* injective: the digest is modelled by what was hashed, the canonical URL
\* (host and path) or the decoded bytes.
NoSrc == [kind |-> "none", host |-> "", key |-> 0, ext |-> ""]
RemoteSrc(e) ==
    [kind |-> "url", host |-> CanonHost(e.host), key |-> e.key, ext |-> RemoteExt(e)]
EmbeddedSrc(e) ==
    [kind |-> "bytes", host |-> "", key |-> e.key, ext |-> IMAGE_MIME(e.dmime)]

\* the coroutine _fetch_article appends to tasks for the element
TaskKind(e) ==
    IF e.tag = "codeblock" THEN "none"
    ELSE IF e.form = "data" THEN "embedded"
    ELSE IF e.form = "url" THEN "remote"
    ELSE "none"

\* the element after the three synchronous loops of _fetch_article
Classified(e) ==
    IF e.tag = "codeblock"
    THEN [st |-> IF e.form = "code" THEN "pre" ELSE "gone", src |-> NoSrc]
    ELSE [st |-> IF TaskKind(e) = "none" THEN "gone" ELSE "orig", src |-> NoSrc]

Decomposed == [st |-> "gone", src |-> NoSrc]
Replaced(src) == [st |-> "img", src |-> src]

\* the path of the file an element is stored at
SrcOf(e) == IF TaskKind(e) = "remote" THEN RemoteSrc(e) ELSE EmbeddedSrc(e)
FileOf(t, e) == [dir |-> IdOf(t), src |-> SrcOf(e)]

\* what convert_soup renders: the elements still in the tree, in order
RECURSIVE Render(_)
Render(tr) ==
    IF tr = << >> THEN << >>
    ELSE LET rest == Render(Tail(tr))
         IN IF Head(tr).st = "gone" THEN rest
            ELSE << [at |-> Len(tr), st |-> Head(tr).st, src |-> Head(tr).src] >> \o rest

\* ------------------------------------------------------- page listings
\* A listing answer: a status and, when the body decodes as JSON, its value.
\*   json    notjson | number | null | object | array
\*   items   array: the records; object: its keys (strings)
\* A record of an array:
\*   t       obj | int | str | list      (obj: a JSON object)
\*   id      obj: its "id": missing | int | digits (a string int() accepts)
\*                        | word (a string int() rejects) | null
\*   v       the number the id denotes
Item(t, id, v) == [t |-> t, id |-> id, v |-> v]
Listing(ok, json, items) == [ok |-> ok, json |-> json, items |-> items]

\* int(item["id"]) for one record: the id, or the exception raised
RecordId(item) ==
    IF item.t # "obj" THEN [exc |-> "TypeError", v |-> 0]
    ELSE IF item.id = "missing" THEN [exc |-> "KeyError", v |-> 0]
    ELSE IF item.id = "null" THEN [exc |-> "TypeError", v |-> 0]
    ELSE IF item.id = "word" THEN [exc |-> "ValueError", v |-> 0]
    ELSE [exc |-> "", v |-> item.v]

\* set(int(item["id"]) for item in json_obj): the first exception ends it
RECURSIVE IdSet(_)
IdSet(items) ==
    IF items = << >> THEN [exc |-> "", ids |-> {}]
    ELSE LET r == RecordId(Head(items))
         IN IF r.exc # "" THEN [exc |-> r.exc, ids |-> {}]
            ELSE LET rest == IdSet(Tail(items))
                 IN IF rest.exc # "" THEN rest
                    ELSE [exc |-> "", ids |-> {r.v} \cup rest.ids]

\* the exceptions fetch_page_links catches
CaughtByPageLinks == {"ClientResponseError", "JSONDecodeError", "TypeError", "KeyError"}

\* the try block of fetch_page_links, before the except clause
LinksOf(body) ==
    IF ~body.ok THEN [exc |-> "ClientResponseError", ids |-> {}]
    ELSE IF body.json = "notjson" THEN [exc |-> "JSONDecodeError", ids |-> {}]
    ELSE IF body.json \in {"number", "null"} THEN [exc |-> "TypeError", ids |-> {}]
    ELSE IdSet(body.items)

\* fetch_page_links: the ids, None (an empty set here, fetch_page tests
\* "not links" only) or the exception that leaves it
PageLinks(body) ==
    LET r == LinksOf(body)
    IN IF r.exc \in CaughtByPageLinks THEN [exc |-> "", ids |-> {}] ELSE r

\* the listing answers of the model
ListingBodies ==
    { Listing(FALSE, "notjson", << >>),
      Listing(TRUE, "notjson", << >>),
      Listing(TRUE, "number", << >>),
      Listing(TRUE, "object", << Item("str", "missing", 0) >>),
      Listing(TRUE, "array", << >>),
      Listing(TRUE, "array", << Item("int", "missing", 0) >>),
      Listing(TRUE, "array", << Item("obj", "missing", 0) >>),
      Listing(TRUE, "array", << Item("obj", "int", 1), Item("obj", "null", 0) >>),
      Listing(TRUE, "array", << Item("obj", "word", 0) >>),
      Listing(TRUE, "array", << Item("obj", "int", 1) >>),
      Listing(TRUE, "array", << Item("obj", "digits", MaxIds) >>),
      Listing(TRUE, "array",
              [i \in 1..MaxIds |-> Item("obj", IF i = MaxIds THEN "digits" ELSE "int", i)]) }

\* ------------------------------------------------- cookie generator
\* A line read from the generator's stdout, as characters; "sp" and "nl"
\* are white space.  << >> is what readline returns at end of file.
White == {"sp", "nl"}
SolverLines ==
    { << >>, << "sp", "nl" >>, << "sp", "a", "nl" >>, << "b", "nl" >> }

RECURSIVE LStrip(_)
LStrip(s) == IF s # << >> /\ Head(s) \in White THEN LStrip(Tail(s)) ELSE s
RECURSIVE RStrip(_)
RStrip(s) ==
    IF s # << >> /\ s[Len(s)] \in White THEN RStrip(SubSeq(s, 1, Len(s) - 1)) ELSE s

\* line.decode().strip()
Strip(line) == RStrip(LStrip(line))

\* ---------------------------------------------------------- task states
\* _make_article_req returned None: the three ways
Failed == {"blocked", "challenged", "invalid"}
Terminal == {"ok", "raised"} \cup Failed
PageTerminal == {"none", "done", "raised", "cancelled"}
ImgTerminal == {"none", "done", "failed"}

Procs == 1..Cardinality(Tasks)

\* a dict without entries
EmptyMap == [i \in {} |-> 0]
\* d[k] = v
Put(d, k, v) == [i \in DOMAIN d \cup {k} |-> IF i = k THEN v ELSE d[i]]

\* json_obj["title"] of article idx; the article's directory is named by
\* str(idx) and the title, so by idx
TitleOf(idx) == idx

\* a semaphore that never makes a caller wait
SemNeverWaits(value) == TRUE
\* a lock that never makes a caller wait
LockNeverWaits(locked) == TRUE

\* asyncio.Semaphore: acquire returns at once when the value is positive
SemFree(value) == value > 0
\* asyncio.Lock: acquire returns at once when the lock is not held
LockFree(locked) == ~locked

\* ClientSession.close() has run: close() is gathered in main's finally
ClientClosed == mainPc \in {"close_term", "close_kill", "closing", "close_raised", "exit"}

\* the request after _update_cookie issued as the first was: retry=True
RetriedAsFirst == "fetch1"

\* retry of the call _make_article_req(idx, retry=...) a request belongs to
Retry(p) == p = "fetch1"
\* the request _make_article_req issues after _update_cookie: retry=False
RetriedPc == "fetch2"

\* the counts of a page that has logged none
NoSummary == [total |-> 0, downloaded |-> 0, failed |-> 0, skipped |-> 0]

\* ------------------------------------------------------------- Init
\* The state after XZSpider(...) is constructed and main() enters its try.
InitRun ==
    /\ mainPc = "init"
    /\ pagePc = [pg \in Pages |-> "none"]
    /\ links = [pg \in Pages |-> {}]
    /\ res = [pg \in Pages |-> {}]
    /\ summary = [pg \in Pages |-> NoSummary]
    /\ pc = [t \in Tasks |-> IF t = Sentinel THEN "new" ELSE "none"]
    /\ fetches = [t \in Tasks |-> 0]
    /\ tree = [t \in Tasks |-> << >>]
    /\ imgPc = [t \in Tasks |-> << >>]
    /\ page_sem = page_limit
    /\ news_sem = limit
    /\ image_sem = limit * ImageSemFactor
    /\ cookie_proc_lock = FALSE
    /\ cookie_proc = 0
    /\ procState = [p \in Procs |-> "unborn"]
    /\ talk = [t \in Tasks |-> 0]
    /\ timedOut = {}
    /\ closeProc = 0
    /\ cookie = << >>
    /\ rewrites = {}
    /\ docs = EmptyMap

\* __init__: the index is loaded unless ignore_exists
LoadedIndex ==
    IF ignore_exists THEN { EmptyMap }
    ELSE { [i \in S |-> TitleOf(i)] : S \in SUBSET Ids }

\* ------------------------------------------------- _make_article_req
\* a task that leaves without releasing the article permit
LeaveHoldsPermit(t, outcome) ==
    /\ pc' = [pc EXCEPT ![t] = outcome]
    /\ news_sem' = news_sem

\* A task leaves: the article permit is released (fetch_article's async with)
Leave(t, outcome) ==
    /\ pc' = [pc EXCEPT ![t] = outcome]
    /\ news_sem' = IF t = Sentinel THEN news_sem ELSE news_sem + 1

\* fetch_article: the permit is taken and _make_article_req(idx, retry=True)
\* issues its GET; init_cookie issues it without a permit
ArticleEnter(t) ==
    /\ pc[t] = "new"
    /\ t = Sentinel \/ SemFree(news_sem)
    /\ pc' = [pc EXCEPT ![t] = "fetch1"]
    /\ fetches' = [fetches EXCEPT ![t] = @ + 1]
    /\ news_sem' = IF t = Sentinel THEN news_sem ELSE news_sem - 1
    /\ UNCHANGED << configVars, mainPc, pageVars, tree, imgPc, page_sem, image_sem,
                    solverVars, diskVars >>

\* a blocked answer that also drops the cookie of the jar
FetchBlockedDropsCookie(t) ==
    /\ pc[t] \in {"fetch1", "fetch2"}
    /\ ~ClientClosed
    /\ Leave(t, "blocked")
    /\ cookie' = << >>
    /\ UNCHANGED << configVars, mainPc, pageVars, fetches, imageVars, page_sem,
                    cookie_proc_lock, cookie_proc, procState, talk, timedOut,
                    closeProc, diskVars >>

\* status != 200 or no Set-Cookie header: None
FetchBlocked(t) ==
    /\ pc[t] \in {"fetch1", "fetch2"}
    /\ ~ClientClosed
    /\ Leave(t, "blocked")
    /\ UNCHANGED << configVars, mainPc, pageVars, fetches, imageVars, page_sem,
                    solverVars, diskVars >>

\* the body matches ARG1_RE: None when retry is False, else _update_cookie
FetchChallenge(t) ==
    /\ pc[t] \in {"fetch1", "fetch2"}
    /\ ~ClientClosed
    /\ IF Retry(pc[t])
       THEN pc' = [pc EXCEPT ![t] = "lockwait"] /\ UNCHANGED news_sem
       ELSE Leave(t, "challenged")
    /\ UNCHANGED << configVars, mainPc, pageVars, fetches, imageVars, page_sem,
                    solverVars, diskVars >>

\* an invalid body whose exception is not caught
FetchInvalidRaises(t) ==
    /\ pc[t] \in {"fetch1", "fetch2"}
    /\ ~ClientClosed
    /\ Leave(t, "raised")
    /\ UNCHANGED << configVars, mainPc, pageVars, fetches, imageVars, page_sem,
                    solverVars, diskVars >>

\* the body is no JSON object with a title and a content: None
FetchInvalid(t) ==
    /\ pc[t] \in {"fetch1", "fetch2"}
    /\ ~ClientClosed
    /\ Leave(t, "invalid")
    /\ UNCHANGED << configVars, mainPc, pageVars, fetches, imageVars, page_sem,
                    solverVars, diskVars >>

\* the article is returned.  init_cookie is done; _fetch_article makes the
\* directory, parses the content, runs its three loops over the elements
\* and awaits gather(*tasks)
FetchOk(t) ==
    /\ pc[t] \in {"fetch1", "fetch2"}
    /\ ~ClientClosed
    /\ IF t = Sentinel
       THEN /\ pc' = [pc EXCEPT ![t] = "ok"]
            /\ UNCHANGED << tree, imgPc >>
       ELSE LET c == content[IdOf(t)]
            IN /\ pc' = [pc EXCEPT ![t] = "images"]
               /\ tree' = [tree EXCEPT ![t] = [i \in 1..Len(c) |-> Classified(c[i])]]
               /\ imgPc' = [imgPc EXCEPT ![t] =
                      [i \in 1..Len(c) |->
                          IF TaskKind(c[i]) = "none" THEN "none" ELSE "start"]]
    /\ UNCHANGED << configVars, mainPc, pageVars, fetches, page_sem, news_sem,
                    image_sem, solverVars, diskVars >>

\* the session is closed under a request in flight: the GET raises
FetchClosed(t) ==
    /\ pc[t] \in {"fetch1", "fetch2"}
    /\ ClientClosed
    /\ mainPc # "exit"
    /\ Leave(t, "raised")
    /\ UNCHANGED << configVars, mainPc, pageVars, fetches, imageVars, page_sem,
                    solverVars, diskVars >>

\* ---------------------------------------------------- _update_cookie
\* A process object nothing refers to any longer (not _cookie_proc, not a
\* frame of _update_cookie or _terminate_cookie_proc) is forgotten once the
\* process has been awaited.
Collect(ps, cp, clp, tk) ==
    [p \in Procs |->
        IF ps[p] = "reaped" /\ p # cp /\ p # clp /\ (\A t \in Tasks : tk[t] # p)
        THEN "unborn" ELSE ps[p]]

\* the solver's state after a step: process states ps, _cookie_proc cp, the
\* process of close() clp, the processes tk the tasks talk to, timed out to
Settle(ps, cp, clp, tk, to) ==
    /\ procState' = Collect(ps, cp, clp, tk)
    /\ cookie_proc' = cp
    /\ closeProc' = clp
    /\ talk' = tk
    /\ timedOut' = {p \in to : Collect(ps, cp, clp, tk)[p] # "unborn"}

\* process p has exited and has been awaited
ReapedState(p) == [procState EXCEPT ![p] = "reaped"]

\* _update_cookie returns: the lock is released and
\* _make_article_req(idx, retry=False) issues its GET
Retried(t) ==
    /\ pc' = [pc EXCEPT ![t] = RetriedPc]
    /\ fetches' = [fetches EXCEPT ![t] = @ + 1]
    /\ cookie_proc_lock' = FALSE

\* the process the next create_subprocess_exec returns
NextPid == CHOOSE p \in Procs : procState[p] = "unborn" /\ \A q \in 1..(p - 1) : procState[q] # "unborn"

\* async with self._cookie_proc_lock; the generator is started when
\* _cookie_proc is None, else the token is written to it: stdin.write(arg1
\* + "\n") and drain(), which may raise on a process that has exited; then
\* readline() is awaited
LockAcquire(t) ==
    /\ pc[t] = "lockwait"
    /\ LockFree(cookie_proc_lock)
    /\ IF cookie_proc = 0
       THEN /\ pc' = [pc EXCEPT ![t] = "spawn"]
            /\ cookie_proc_lock' = TRUE
            /\ UNCHANGED << talk, news_sem >>
       ELSE \E raises \in BOOLEAN :
               /\ raises => procState[cookie_proc] # "alive"
               /\ IF raises
                  THEN /\ Leave(t, "raised")
                       /\ UNCHANGED << talk, cookie_proc_lock >>
                  ELSE /\ pc' = [pc EXCEPT ![t] = "read"]
                       /\ talk' = [talk EXCEPT ![t] = cookie_proc]
                       /\ cookie_proc_lock' = TRUE
                       /\ UNCHANGED news_sem
    /\ UNCHANGED << configVars, mainPc, pageVars, fetches, imageVars, page_sem,
                    cookie_proc, procState, timedOut, closeProc, cookie, diskVars >>

\* create_subprocess_exec returns a new process; the token is written to it
Spawned(t) ==
    /\ pc[t] = "spawn"
    /\ cookie_proc' = NextPid
    /\ procState' = [procState EXCEPT ![NextPid] = "alive"]
    /\ pc' = [pc EXCEPT ![t] = "read"]
    /\ talk' = [talk EXCEPT ![t] = NextPid]
    /\ UNCHANGED << configVars, mainPc, pageVars, fetches, imageVars, page_sem,
                    news_sem, cookie_proc_lock, timedOut, closeProc, cookie, diskVars >>

\* the lines readline() can return from process p: end of file once it
\* has exited, else what it prints
LinesOf(p) ==
    IF procState[p] = "alive" THEN SolverLines \ { << >> } ELSE { << >> }

\* the jar after a line when the line is stored as it was read
CookieUnchecked(line) == line

\* the jar after a line: update_cookies only for a non-empty cookie
CookieAfter(line) == IF Strip(line) = << >> THEN cookie ELSE Strip(line)

\* readline() returns within 2 seconds
ReadLine(t) ==
    /\ pc[t] = "read"
    /\ \E line \in LinesOf(talk[t]) : cookie' = CookieAfter(line)
    /\ Retried(t)
    /\ Settle(procState, cookie_proc, closeProc, [talk EXCEPT ![t] = 0], timedOut)
    /\ UNCHANGED << configVars, mainPc, pageVars, imageVars, page_sem, news_sem,
                    diskVars >>

\* _cookie_proc when _terminate_cookie_proc leaves it as it is
ProcessKept == cookie_proc

\* _cookie_proc after _terminate_cookie_proc's finally
AfterTerminate == 0

\* readline() times out: _terminate_cookie_proc closes stdin and calls
\* terminate() when _cookie_proc is not None, and awaits wait() for 2 seconds
ReadTimeout(t) ==
    /\ pc[t] = "read"
    /\ procState[talk[t]] = "alive"
    /\ IF cookie_proc = 0
       THEN /\ Retried(t)
            /\ Settle(procState, cookie_proc, closeProc, [talk EXCEPT ![t] = 0],
                      timedOut \cup {talk[t]})
       ELSE /\ pc' = [pc EXCEPT ![t] = "term"]
            /\ timedOut' = timedOut \cup {talk[t]}
            /\ UNCHANGED << fetches, cookie_proc_lock, talk, cookie_proc, procState,
                            closeProc >>
    /\ UNCHANGED << configVars, mainPc, pageVars, imageVars, page_sem, news_sem,
                    cookie, diskVars >>

\* wait() times out: kill() and wait() is awaited again
TermTimeout(t) ==
    /\ pc[t] = "term"
    /\ pc' = [pc EXCEPT ![t] = "kill"]
    /\ UNCHANGED << configVars, mainPc, pageVars, fetches, imageVars, page_sem,
                    news_sem, solverVars, diskVars >>

\* Process p has exited: every wait() on it returns in the same turn of the
\* event loop, that of a task in _terminate_cookie_proc (after terminate()
\* or after kill()) and that of close().  Each runs finally: _cookie_proc =
\* None; the task leaves _update_cookie, close() is left with
\* ClientSession.close().
Waiters(p) == {t \in Tasks : pc[t] \in {"term", "kill"} /\ talk[t] = p}
CloseWaits(p) == mainPc \in {"close_term", "close_kill"} /\ closeProc = p

ProcessAwaited(p) ==
    /\ Waiters(p) # {} \/ CloseWaits(p)
    /\ pc' = [t \in Tasks |-> IF t \in Waiters(p) THEN RetriedPc ELSE pc[t]]
    /\ fetches' = [t \in Tasks |-> IF t \in Waiters(p) THEN fetches[t] + 1 ELSE fetches[t]]
    /\ cookie_proc_lock' = IF Waiters(p) # {} THEN FALSE ELSE cookie_proc_lock
    /\ mainPc' = IF CloseWaits(p) THEN "closing" ELSE mainPc
    /\ Settle(ReapedState(p), AfterTerminate, IF CloseWaits(p) THEN 0 ELSE closeProc,
              [t \in Tasks |-> IF t \in Waiters(p) THEN 0 ELSE talk[t]], timedOut)
    /\ UNCHANGED << configVars, pageVars, imageVars, page_sem, news_sem, cookie,
                    diskVars >>

\* the generator process exits by itself
SolverCrash ==
    /\ mainPc \in {"init", "pages"}
    /\ cookie_proc # 0
    /\ procState[cookie_proc] = "alive"
    /\ procState' = [procState EXCEPT ![cookie_proc] = "exited"]
    /\ UNCHANGED << configVars, mainPc, pageVars, pc, fetches, imageVars, page_sem,
                    news_sem, cookie_proc_lock, cookie_proc, talk, timedOut, closeProc,
                    cookie, diskVars >>

\* ------------------------------------------------------ image tasks
SetImg(t, i, p) == imgPc' = [imgPc EXCEPT ![t][i] = p]
SetElem(t, i, e) == tree' = [tree EXCEPT ![t][i] = e]
ImgAt(t, p) == {i \in DOMAIN imgPc[t] : imgPc[t][i] = p}
Running(t) == pc[t] = "images"

\* the file exists: the element is replaced and the file is opened only
\* when os.path.exists(...) is false
SkipWrite(file) == file \in files

\* from src = "img/" + ... on, for both kinds: the task ends (holds is whether
\* the step began inside the image permit) or goes on to open the file
Store(t, i, e, holds) ==
    IF SkipWrite(FileOf(t, e))
    THEN /\ SetImg(t, i, "done")
         /\ image_sem' = IF holds THEN image_sem + 1 ELSE image_sem
         /\ UNCHANGED tree
    ELSE /\ SetImg(t, i, "open")
         /\ SetElem(t, i, Replaced(SrcOf(e)))
         /\ image_sem' = IF holds THEN image_sem ELSE image_sem - 1

\* _save_embedded_image: the data does not match IMAGE_DATA_RE, or its mime
\* type is not in IMAGE_MIME
EmbeddedBadType(t, i) ==
    /\ Running(t) /\ i \in ImgAt(t, "start")
    /\ TaskKind(content[IdOf(t)][i]) = "embedded"
    /\ IMAGE_MIME(content[IdOf(t)][i].dmime) = ""
    /\ SetElem(t, i, Decomposed)
    /\ SetImg(t, i, "failed")
    /\ UNCHANGED << configVars, mainPc, pageVars, pc, fetches, page_sem, news_sem,
                    image_sem, solverVars, diskVars >>

\* _save_embedded_image inside the image permit, up to the await of open_file
EmbeddedDecode(t, i) ==
    /\ Running(t) /\ i \in ImgAt(t, "start")
    /\ TaskKind(content[IdOf(t)][i]) = "embedded"
    /\ IMAGE_MIME(content[IdOf(t)][i].dmime) # ""
    /\ SemFree(image_sem)
    /\ IF ~content[IdOf(t)][i].b64ok
       THEN /\ SetElem(t, i, Decomposed)
            /\ SetImg(t, i, "failed")
            /\ UNCHANGED image_sem
       ELSE Store(t, i, content[IdOf(t)][i], FALSE)
    /\ UNCHANGED << configVars, mainPc, pageVars, pc, fetches, page_sem, news_sem,
                    solverVars, diskVars >>

\* _get_remote_image: the image permit is taken and the GET is issued
RemoteEnter(t, i) ==
    /\ Running(t) /\ i \in ImgAt(t, "start")
    /\ TaskKind(content[IdOf(t)][i]) = "remote"
    /\ SemFree(image_sem)
    /\ image_sem' = image_sem - 1
    /\ SetImg(t, i, "get")
    /\ UNCHANGED << configVars, mainPc, pageVars, pc, fetches, tree, page_sem,
                    news_sem, solverVars, diskVars >>

\* the answer to the GET, up to the await of open_file
RemoteAnswer(t, i) ==
    /\ Running(t) /\ i \in ImgAt(t, "get")
    /\ LET e == content[IdOf(t)][i]
       IN IF ClientClosed \/ e.status = "conn_err"
          THEN /\ SetImg(t, i, "failed")
               /\ image_sem' = image_sem + 1
               /\ UNCHANGED tree
          ELSE IF e.status = "http_err" \/ RemoteExt(e) = ""
          THEN /\ SetElem(t, i, Decomposed)
               /\ SetImg(t, i, "failed")
               /\ image_sem' = image_sem + 1
          ELSE Store(t, i, e, TRUE)
    /\ UNCHANGED << configVars, mainPc, pageVars, pc, fetches, page_sem, news_sem,
                    solverVars, diskVars >>

\* async with await anyio.open_file(..., "wb") as f: await f.write(data).
\* The file is created, or truncated when another task has created it since
\* the test of os.path.exists, and written; or opening it raises.  The
\* image permit is released.
ImageStored(t, i) ==
    /\ Running(t) /\ i \in ImgAt(t, "open")
    /\ LET e == content[IdOf(t)][i]
       IN IF e.werr
          THEN /\ SetImg(t, i, "failed")
               /\ UNCHANGED << files, rewrites >>
          ELSE /\ SetImg(t, i, "done")
               /\ files' = files \cup {FileOf(t, e)}
               /\ rewrites' = IF FileOf(t, e) \in files
                              THEN rewrites \cup {FileOf(t, e)} ELSE rewrites
    /\ image_sem' = image_sem + 1
    /\ UNCHANGED << configVars, mainPc, pageVars, pc, fetches, tree, page_sem,
                    news_sem, solverVars, fetched_index, docs >>

\* ------------------------------------------------- _fetch_article
\* the .md file opened without waiting for the image tasks
ImagesNotAwaited(t) ==
    /\ Running(t)
    /\ pc' = [pc EXCEPT ![t] = "mdwrite"]
    /\ UNCHANGED << configVars, mainPc, pageVars, fetches, imageVars, page_sem,
                    news_sem, solverVars, diskVars >>

\* gather(*tasks, return_exceptions=True) returns; the .md file is opened
ImagesGathered(t) ==
    /\ Running(t)
    /\ \A i \in DOMAIN imgPc[t] : imgPc[t][i] \in ImgTerminal
    /\ pc' = [pc EXCEPT ![t] = "mdwrite"]
    /\ UNCHANGED << configVars, mainPc, pageVars, fetches, imageVars, page_sem,
                    news_sem, solverVars, diskVars >>

\* open_file has returned: convert_soup renders the tree and the rendering
\* is written; the file is then closed
DocWritten(t) ==
    /\ pc[t] = "mdwrite"
    /\ pc' = [pc EXCEPT ![t] = "mdclose"]
    /\ docs' = Put(docs, IdOf(t), Render(tree[t]))
    /\ UNCHANGED << configVars, mainPc, pageVars, fetches, imageVars, page_sem,
                    news_sem, solverVars, fetched_index, files, rewrites >>

\* an index entry set while the document is still to be written
ArticleSavedEarly(t) ==
    /\ pc[t] \in {"mdwrite", "mdclose"}
    /\ fetched_index' = Put(fetched_index, IdOf(t), TitleOf(IdOf(t)))
    /\ Leave(t, "ok")
    /\ UNCHANGED << configVars, mainPc, pageVars, fetches, imageVars, page_sem,
                    solverVars, files, rewrites, docs >>

\* the file is closed: the index entry is set and True is returned
ArticleSaved(t) ==
    /\ pc[t] = "mdclose"
    /\ fetched_index' = Put(fetched_index, IdOf(t), TitleOf(IdOf(t)))
    /\ Leave(t, "ok")
    /\ UNCHANGED << configVars, mainPc, pageVars, fetches, imageVars, page_sem,
                    solverVars, files, rewrites, docs >>

\* ------------------------------------------------------- fetch_page
\* async with self._page_sem; fetch_page_links issues its GET
PageEnter(pg) ==
    /\ pagePc[pg] = "new"
    /\ SemFree(page_sem)
    /\ page_sem' = page_sem - 1
    /\ pagePc' = [pagePc EXCEPT ![pg] = "listing"]
    /\ UNCHANGED << configVars, mainPc, links, res, summary, pc, fetches, imageVars,
                    news_sem, solverVars, diskVars >>

\* a gather without the filter
DispatchedAll(ids) == ids

\* the ids fetch_page dispatches: the filter of its gather
Dispatched(ids) == {i \in ids : ignore_exists \/ i \notin DOMAIN fetched_index}

\* the listing is answered: fetch_page returns on no links, else gathers
\* fetch_article(i) for the ids to fetch.  Once the session is closed the
\* GET raises.
PageListed(pg, body) ==
    /\ pagePc[pg] = "listing"
    /\ mainPc # "exit"
    /\    LET r == IF ClientClosed THEN [exc |-> "ClientConnectionError", ids |-> {}]
                   ELSE PageLinks(body)
          IN IF r.exc # ""
             THEN /\ pagePc' = [pagePc EXCEPT ![pg] = "raised"]
                  /\ page_sem' = page_sem + 1
                  /\ UNCHANGED << links, res, pc >>
             ELSE IF r.ids = {}
             THEN /\ pagePc' = [pagePc EXCEPT ![pg] = "done"]
                  /\ page_sem' = page_sem + 1
                  /\ UNCHANGED << links, res, pc >>
             ELSE /\ pagePc' = [pagePc EXCEPT ![pg] = "gather"]
                  /\ links' = [links EXCEPT ![pg] = r.ids]
                  /\ res' = [res EXCEPT ![pg] = Dispatched(r.ids)]
                  /\ pc' = [t \in Tasks |->
                        IF PageOf(t) = pg /\ IdOf(t) \in Dispatched(r.ids)
                        THEN "new" ELSE pc[t]]
                  /\ UNCHANGED page_sem
    /\ UNCHANGED << configVars, mainPc, summary, fetches, imageVars, news_sem,
                    solverVars, diskVars >>

\* the tasks fetch_page(pg) gathered
Gathered(pg) == {<<pg, i>> : i \in res[pg]}

\* the counts of the log line: len(links), the results that are true, the
\* results that are not, len(links) - len(res)
Summary(pg) ==
    [total |-> Cardinality(links[pg]),
     downloaded |-> Cardinality({t \in Gathered(pg) : pc[t] = "ok"}),
     failed |-> Cardinality({t \in Gathered(pg) : pc[t] # "ok"}),
     skipped |-> Cardinality(links[pg]) - Cardinality(res[pg])]

\* the frames of the tasks in T are gone: their locals are forgotten
ForgetTasks(T) ==
    /\ pc' = [t \in Tasks |-> IF t \in T THEN "none" ELSE pc[t]]
    /\ fetches' = [t \in Tasks |-> IF t \in T THEN 0 ELSE fetches[t]]
    /\ tree' = [t \in Tasks |-> IF t \in T THEN << >> ELSE tree[t]]
    /\ imgPc' = [t \in Tasks |-> IF t \in T THEN << >> ELSE imgPc[t]]

\* gather returns the results: the summary is logged and fetch_page returns
PageDone(pg) ==
    /\ pagePc[pg] = "gather"
    /\ \A t \in Gathered(pg) : pc[t] \in {"ok"} \cup Failed
    /\ pagePc' = [pagePc EXCEPT ![pg] = "done"]
    /\ page_sem' = page_sem + 1
    /\ links' = [links EXCEPT ![pg] = {}]
    /\ res' = [res EXCEPT ![pg] = {}]
    /\ summary' = [summary EXCEPT ![pg] = Summary(pg)]
    /\ ForgetTasks(Gathered(pg))
    /\ UNCHANGED << configVars, mainPc, image_sem, news_sem, solverVars, diskVars >>

\* gather raises the first exception of a fetch_article
PageRaised(pg) ==
    /\ pagePc[pg] = "gather"
    /\ \E t \in Gathered(pg) : pc[t] = "raised"
    /\ pagePc' = [pagePc EXCEPT ![pg] = "raised"]
    /\ page_sem' = page_sem + 1
    /\ UNCHANGED << configVars, mainPc, links, res, summary, pc, fetches, imageVars,
                    news_sem, solverVars, diskVars >>

\* ------------------------------------------------------------- main
\* an init_cookie that returns whatever the request gave
InitCookieSilent(p) == FALSE

\* init_cookie: ValueError when the request returned None; an exception of
\* the request passes through
InitCookieRaises(p) == p # "ok"

\* init_cookie returns, and main gathers fetch_page(i) for the pages; or
\* it raises ValueError (None) or the exception of the request
CookieInitialized ==
    /\ mainPc = "init"
    /\ pc[Sentinel] \in Terminal
    /\ IF InitCookieRaises(pc[Sentinel])
       THEN /\ mainPc' = "finally"
            /\ UNCHANGED pagePc
       ELSE /\ mainPc' = "pages"
            /\ pagePc' = [pg \in Pages |-> IF pg \in pages THEN "new" ELSE "none"]
    /\ ForgetTasks({Sentinel})
    /\ UNCHANGED << configVars, links, res, summary, image_sem, page_sem, news_sem,
                    solverVars, diskVars >>

\* gather returns when every fetch_page has, or raises the first exception
PagesGathered ==
    /\ mainPc = "pages"
    /\ \/ \E pg \in pages : pagePc[pg] = "raised"
       \/ \A pg \in pages : pagePc[pg] = "done"
    /\ mainPc' = "finally"
    /\ UNCHANGED << configVars, pageVars, pc, fetches, imageVars, page_sem, news_sem,
                    solverVars, diskVars >>

\* finally: close() gathers ClientSession.close() and _terminate_cookie_proc,
\* which closes stdin and calls terminate() when _cookie_proc is not None.
\* terminate() on a process whose exit asyncio has seen raises
\* ProcessLookupError, before the try.
Close ==
    /\ mainPc = "finally"
    /\ IF cookie_proc = 0
       THEN mainPc' = "closing" /\ UNCHANGED closeProc
       ELSE \E raises \in BOOLEAN :
               /\ raises => procState[cookie_proc] # "alive"
               /\ IF raises
                  THEN mainPc' = "close_raised" /\ UNCHANGED closeProc
                  ELSE mainPc' = "close_term" /\ closeProc' = cookie_proc
    /\ UNCHANGED << configVars, pageVars, pc, fetches, imageVars, page_sem, news_sem,
                    cookie_proc_lock, cookie_proc, procState, talk, timedOut, cookie,
                    diskVars >>

\* close(): wait() times out: kill() and wait() is awaited again
CloseTermTimeout ==
    /\ mainPc = "close_term"
    /\ mainPc' = "close_kill"
    /\ UNCHANGED << configVars, pageVars, pc, fetches, imageVars, page_sem, news_sem,
                    solverVars, diskVars >>

\* close() has returned (save_index follows) or raised: main ends, and
\* asyncio.run cancels the tasks still running; a cancelled task leaves its
\* async with blocks, which release what they hold, and runs its finally:
\* one cancelled in _terminate_cookie_proc sets _cookie_proc = None
Exit ==
    /\ mainPc \in {"closing", "close_raised"}
    /\ mainPc' = "exit"
    /\ ForgetTasks(Tasks)
    /\ pagePc' = [pg \in Pages |->
          IF pagePc[pg] \in PageTerminal THEN pagePc[pg] ELSE "cancelled"]
    /\ links' = [pg \in Pages |-> {}]
    /\ res' = [pg \in Pages |-> {}]
    /\ page_sem' = page_limit
    /\ news_sem' = limit
    /\ image_sem' = limit * ImageSemFactor
    /\ cookie_proc_lock' = FALSE
    /\ Settle(procState,
              IF \E t \in Tasks : pc[t] \in {"term", "kill"} THEN AfterTerminate
              ELSE cookie_proc,
              closeProc, [t \in Tasks |-> 0], timedOut)
    /\ UNCHANGED << configVars, summary, cookie, diskVars >>

\* ------------------------------------------------------------- Next
\* the steps of the program and of its environment
Next ==
    \/ \E t \in Tasks :
          \/ ArticleEnter(t)
          \/ FetchBlocked(t)
          \/ FetchChallenge(t)
          \/ FetchInvalid(t)
          \/ FetchOk(t)
          \/ FetchClosed(t)
          \/ LockAcquire(t)
          \/ Spawned(t)
          \/ ReadLine(t)
          \/ ReadTimeout(t)
          \/ TermTimeout(t)
          \/ ImagesGathered(t)
          \/ DocWritten(t)
          \/ ArticleSaved(t)
    \/ \E t \in Pipelines : \E i \in DOMAIN imgPc[t] :
          \/ EmbeddedBadType(t, i)
          \/ EmbeddedDecode(t, i)
          \/ RemoteEnter(t, i)
          \/ RemoteAnswer(t, i)
          \/ ImageStored(t, i)
    \/ \E pg \in Pages :
          \/ PageEnter(pg)
          \/ \E body \in ListingBodies : PageListed(pg, body)
          \/ PageDone(pg)
          \/ PageRaised(pg)
    \/ \E p \in Procs : ProcessAwaited(p)
    \/ SolverCrash
    \/ CookieInitialized
    \/ PagesGathered
    \/ Close
    \/ CloseTermTimeout
    \/ Exit

\* ------------------------------------------------------ the contents
\* one page lists every article
FullListing ==
    Listing(TRUE, "array",
            [i \in 1..MaxIds |-> Item("obj", IF i = MaxIds THEN "digits" ELSE "int", i)])

\* article 1 has an image of a type IMAGE_MIME lacks and a remote image,
\* the others an embedded image
SmallContent ==
    [i \in Ids |->
        IF i = 1
        THEN << Embedded("img", "image/tiff", TRUE, 1, FALSE),
                Remote("imagecard", "example.com", 1, ".png", "ok", "image/png", "image/png", FALSE) >>
        ELSE << Embedded("img", "image/png", TRUE, i, FALSE) >>]

\* the crawler on one page
Init ==
    /\ limit \in 1..MaxLimit
    /\ page_limit \in 1..MaxPageLimit
    /\ ignore_exists \in BOOLEAN
    /\ pages = {1}
    /\ content = SmallContent
    /\ fetched_index \in LoadedIndex
    /\ files = {}
    /\ InitRun

Spec == Init /\ [][Next]_vars

\* every article has one embedded image
TinyContent == [i \in Ids |-> << Embedded("img", "image/png", TRUE, i, FALSE) >>]

\* the crawler on every page at once, one article at a time
InitPages ==
    /\ limit = 1
    /\ page_limit = MaxPageLimit
    /\ ignore_exists = FALSE
    /\ pages = Pages
    /\ content = TinyContent
    /\ fetched_index = EmptyMap
    /\ files = {}
    /\ InitRun

\* the steps when the cookie generator answers in time and stays alive
NextPages ==
    \/ \E t \in Tasks :
          \/ ArticleEnter(t)
          \/ FetchBlocked(t)
          \/ FetchChallenge(t)
          \/ FetchInvalid(t)
          \/ FetchOk(t)
          \/ FetchClosed(t)
          \/ LockAcquire(t)
          \/ Spawned(t)
          \/ ReadLine(t)
          \/ ImagesGathered(t)
          \/ DocWritten(t)
          \/ ArticleSaved(t)
    \/ \E t \in Pipelines : \E i \in DOMAIN imgPc[t] :
          \/ EmbeddedDecode(t, i)
          \/ ImageStored(t, i)
    \/ \E pg \in Pages :
          \/ PageEnter(pg)
          \/ \E body \in ListingBodies : PageListed(pg, body)
          \/ PageDone(pg)
          \/ PageRaised(pg)
    \/ \E p \in Procs : ProcessAwaited(p)
    \/ CookieInitialized
    \/ PagesGathered
    \/ Close
    \/ Exit

SpecPages == InitPages /\ [][NextPages]_vars

\* ---------------------------------------------- articles with images
PngUrl(tag, host) == Remote(tag, host, 1, ".png", "ok", "image/png", "image/png", FALSE)
PngData(tag, key) == Embedded(tag, "image/png", TRUE, key, FALSE)

\* the contents of article 1 in the image runs
Articles ==
    { \* one malformed payload among a remote and an embedded image
      << PngUrl("img", "example.com"),
         Embedded("img", "image/png", FALSE, 2, FALSE),
         PngData("imagecard", 1) >>,
      \* the same image twice: by two names of one host, and by its bytes
      << PngUrl("img", "xianzhi.aliyuncs.com"),
         PngUrl("imagecard", "xzfile.aliyuncs.com"),
         PngData("img", 1) >>,
      << PngData("img", 1), PngData("imagecard", 1) >>,
      \* the answers that fail a remote image
      << Remote("img", "example.com", 2, ".png", "http_err", "text/html", "text/html", FALSE),
         Remote("img", "example.com", 3, ".png", "conn_err", "", "", FALSE),
         Remote("imagecard", "example.com", 4, ".php", "ok", "text/html", "text/plain", FALSE) >>,
      \* the extension from the content type and from the bytes; a write error
      << Remote("img", "ws1.sinaimg.cn", 5, "", "ok", "image/jpeg", "image/jpeg", FALSE),
         Remote("img", "wx2.sinaimg.cn", 5, ".php", "ok", "text/html", "image/jpeg", FALSE),
         Remote("img", "example.com", 6, ".jpeg", "ok", "image/jpeg", "image/jpeg", TRUE) >>,
      \* what is no image task: a type IMAGE_MIME lacks, a relative src, bad
      \* JSON, and the code cards
      << Embedded("img", "image/tiff", TRUE, 1, FALSE),
         Embedded("imagecard", "", TRUE, 1, TRUE),
         Plain("img", "other"),
         Plain("imagecard", "badjson"),
         Plain("imagecard", "other"),
         Plain("codeblock", "code"),
         Plain("codeblock", "badjson"),
         PngData("img", 1) >> }

\* files an earlier run can have left in article 1's directory
OldFiles ==
    { [dir |-> 1, src |-> RemoteSrc(PngUrl("img", "example.com"))],
      [dir |-> 1, src |-> EmbeddedSrc(PngData("img", 1))] }

\* one article at a time, over what an earlier run left
InitImages ==
    /\ limit = 1
    /\ page_limit = 1
    /\ ignore_exists = TRUE
    /\ pages = {1}
    /\ content \in {[i \in Ids |-> IF i = 1 THEN a ELSE << >>] : a \in Articles}
    /\ fetched_index = EmptyMap
    /\ files \in SUBSET OldFiles
    /\ InitRun

SpecImages == InitImages /\ [][Next]_vars

\* ------------------------------------------------- the permits' bounds
\* article 1 has one image more than the image permit holds at limit 1
BurstContent ==
    [i \in Ids |->
        IF i = 1 THEN [k \in 1..(ImageSemFactor + 1) |-> PngData("img", k)]
        ELSE << PngUrl("img", "example.com") >>]

InitBound ==
    /\ limit = 1
    /\ page_limit = 1
    /\ ignore_exists = FALSE
    /\ pages = Pages
    /\ content = BurstContent
    /\ fetched_index = EmptyMap
    /\ files = {}
    /\ InitRun

\* the steps when the site answers every request and lists every article
NextBound ==
    \/ \E t \in Tasks :
          \/ ArticleEnter(t)
          \/ FetchOk(t)
          \/ ImagesGathered(t)
          \/ DocWritten(t)
          \/ ArticleSaved(t)
    \/ \E t \in Pipelines : \E i \in DOMAIN imgPc[t] :
          \/ EmbeddedDecode(t, i)
          \/ RemoteEnter(t, i)
          \/ RemoteAnswer(t, i)
          \/ ImageStored(t, i)
    \/ \E pg \in Pages :
          \/ PageEnter(pg)
          \/ PageListed(pg, FullListing)
          \/ PageDone(pg)
    \/ CookieInitialized
    \/ PagesGathered
    \/ Close
    \/ Exit

SpecBound == InitBound /\ [][NextBound]_vars

\* ============================================================ properties
\* ------------------------------------------------------------------ C1
\* C1: no request or pipeline issues more than two GETs for its id, and one
\* that was answered by the challenge twice has issued exactly two, has
\* returned None, and has left no document and no index entry for its id.
C1_BoundedRetry ==
    \A t \in Tasks :
        /\ fetches[t] <= 2
        /\ pc[t] = "fetch2" => fetches[t] = 2
        /\ pc[t] = "challenged" =>
              /\ fetches[t] = 2
              /\ IdOf(t) \notin DOMAIN docs
              /\ IdOf(t) \notin DOMAIN fetched_index

\* a pipeline was challenged on both of its requests
C1_Witness == \E t \in Pipelines : pc[t] = "challenged" /\ fetches[t] = 2

\* ------------------------------------------------------------------ C2
\* the page tasks, the pipelines and the image tasks inside their permit
InPagePermit == {pg \in Pages : pagePc[pg] \in {"listing", "gather"}}
InArticlePermit == {t \in Pipelines : pc[t] \notin {"none", "new"} \cup Terminal}
InImagePermit ==
    UNION { { <<t, i>> : i \in ImgAt(t, "get") \cup ImgAt(t, "open") } : t \in Pipelines }

\* C2: at most page_limit page tasks, limit pipelines and 8 * limit image
\* operations are inside their permit, in every state.
C2_ConcurrencyBound ==
    /\ Cardinality(InPagePermit) <= page_limit
    /\ Cardinality(InArticlePermit) <= limit
    /\ Cardinality(InImagePermit) <= ImageSemFactor * limit

\* every permit is used up and a page, a pipeline and an image wait for one
C2_Witness ==
    /\ Cardinality(InPagePermit) = page_limit
    /\ \E pg \in Pages : pagePc[pg] = "new"
    /\ Cardinality(InArticlePermit) = limit
    /\ \E t \in Pipelines : pc[t] = "new"
    /\ Cardinality(InImagePermit) = ImageSemFactor * limit
    /\ \E t \in Pipelines : ImgAt(t, "start") # {}

\* ------------------------------------------------------------------ C3
\* the tasks inside _update_cookie's async with
InExchange == {t \in Tasks : pc[t] \in {"spawn", "read", "term", "kill"}}

\* C3: at most one task is inside a solver exchange, it holds the lock, and
\* it alone has a token written and not yet answered.
C3_SolverMutex ==
    /\ Cardinality(InExchange) <= 1
    /\ InExchange # {} => cookie_proc_lock
    /\ \A t \in Tasks : talk[t] # 0 => t \in InExchange

\* a pipeline waits for the lock while another reads the solver's answer
C3_Witness ==
    \E t, u \in Pipelines : pc[t] = "read" /\ pc[u] = "lockwait" /\ cookie_proc_lock

\* ------------------------------------------------------------------ C4
Terminating(p) == \E t \in Tasks : pc[t] \in {"term", "kill"} /\ talk[t] = p

\* C4: a process a readline timed out on is being terminated by the task
\* that holds the lock for as long as it lives and for as long as
\* _cookie_proc refers to it; no task reads from it; and the task that
\* terminated it goes on to its second request with _cookie_proc None, the
\* process gone and the cookie as it was.
C4_TimeoutRecovery ==
    /\ [](\A p \in timedOut :
             /\ (procState[p] = "alive" /\ mainPc # "exit") => Terminating(p)
             /\ cookie_proc = p => (Terminating(p) /\ cookie_proc_lock)
             /\ \A t \in Tasks : pc[t] = "read" => talk[t] # p)
    /\ [][\A t \in Tasks :
             /\ (pc[t] = "read" /\ talk[t] \notin timedOut /\ talk[t] \in timedOut')
                   => pc'[t] = "term"
             /\ (pc[t] \in {"term", "kill"} /\ pc'[t] \notin {"term", "kill"}
                                           /\ mainPc' # "exit")
                   => /\ pc'[t] = "fetch2"
                      /\ cookie_proc' = 0
                      /\ cookie' = cookie
                      /\ procState'[talk[t]] \in {"reaped", "unborn"}]_vars

\* a pipeline kills the process its readline timed out on while another
\* pipeline waits for the lock
C4_Witness ==
    \E t, u \in Pipelines :
        /\ pc[t] = "kill" /\ talk[t] \in timedOut /\ talk[t] = cookie_proc
        /\ pc[u] = "lockwait"

\* ------------------------------------------------------------------ C5
\* a trimmed, non-empty line
Trimmed(s) == s # << >> /\ Head(s) \notin White /\ s[Len(s)] \notin White

\* C5: the cookie changes only in the step in which a task's readline
\* returned, to the trimmed non-empty line it read; a step that records a
\* timeout leaves the cookie unchanged.
C5_CookieOnlyBySolve ==
    [][/\ cookie' # cookie =>
             /\ \E t \in Tasks : pc[t] = "read" /\ pc'[t] = "fetch2"
                                  /\ procState[talk[t]] = "alive"
             /\ Trimmed(cookie')
             /\ \E line \in SolverLines : cookie' = Strip(line)
             /\ timedOut' \subseteq timedOut
       /\ (\E t \in Tasks : pc[t] = "read" /\ pc'[t] = "term") => cookie' = cookie]_vars

\* a solve has set the cookie, and a later one has timed out
C5_Witness ==
    /\ cookie = << "a" >>
    /\ \E t \in Tasks : pc[t] = "term"

\* ------------------------------------------------------------------ C6
\* no fetch_page has been started and no pipeline exists
NoPageWork ==
    /\ \A pg \in Pages : pagePc[pg] = "none"
    /\ \A t \in Pipelines : pc[t] = "none"

\* C6: while init_cookie runs there is no page work, and page work starts
\* only in the step in which init_cookie returns from a request that gave
\* the article: after a failed sentinel request there is none, ever.
C6_SentinelFatal ==
    /\ [](mainPc = "init" => NoPageWork)
    /\ [][/\ (NoPageWork /\ ~NoPageWork') => (mainPc = "init" /\ pc[Sentinel] = "ok")
          /\ (mainPc = "init" /\ mainPc' # "init" /\ pc[Sentinel] # "ok")
                => mainPc' = "finally"]_vars

\* the run has ended after a failed sentinel request, without page work
C6_Witness == mainPc = "exit" /\ NoPageWork

\* ------------------------------------------------------------------ C7
\* the image references of a pipeline's article, those that gave a stored
\* image and those that did not (malformed, or the image task failed)
ImageRefs(t) == {i \in DOMAIN imgPc[t] : content[IdOf(t)][i].tag # "codeblock"}
GoodRefs(t) == {i \in ImageRefs(t) : imgPc[t][i] = "done"}
BadRefs(t) == {i \in ImageRefs(t) : imgPc[t][i] \in {"none", "failed"}}

\* C7: when exactly one image reference of an article is malformed or
\* fails, every other image task ends done with its element rewritten to
\* the stored image, the failing element is not in the tree that is
\* rendered, and the pipeline succeeds with its document and index entry.
C7_FaultIsolation ==
    \A t \in Pipelines :
        (pc[t] \in {"mdwrite", "mdclose", "ok"} /\ Cardinality(BadRefs(t)) = 1) =>
            /\ \A i \in GoodRefs(t) :
                  tree[t][i] = Replaced(SrcOf(content[IdOf(t)][i]))
            /\ \A i \in BadRefs(t) : tree[t][i].st = "gone"
            /\ pc[t] = "ok" =>
                  /\ IdOf(t) \in DOMAIN docs
                  /\ IdOf(t) \in DOMAIN fetched_index
                  /\ Len(docs[IdOf(t)]) = Cardinality(DOMAIN imgPc[t]) - 1

\* ------------------------------------------------------------------ C8
\* C8: no image file is opened for writing when it already exists, whether
\* it was left by an earlier run or written by another image task, and an
\* element that was rewritten refers to the path of its canonical URL or of
\* its bytes.
C8_IdempotentStorage ==
    /\ rewrites = {}
    /\ \A t \in Pipelines : \A i \in DOMAIN tree[t] :
          tree[t][i].st = "img" => tree[t][i].src = SrcOf(content[IdOf(t)][i])

\* ------------------------------------------------------------------ C9
\* C9: an image task that ended without an exception has left its element
\* replaced by an image reference to the stored path, also when the file
\* existed and was not written.
C9_RewriteOnDedupHit ==
    \A t \in Pipelines : \A i \in DOMAIN imgPc[t] :
        imgPc[t][i] = "done" => tree[t][i] = Replaced(SrcOf(content[IdOf(t)][i]))

\* ----------------------------------------------------------------- C10
\* C10: while the session is open, the answer to a listing request leaves
\* fetch_page returned or gathering its articles: no answer makes
\* fetch_page raise.
C10_ListingNeverFatal ==
    [][\A pg \in Pages :
          (pagePc[pg] = "listing" /\ ~ClientClosed /\ pagePc'[pg] # "listing")
              => pagePc'[pg] \in {"done", "gather"}]_vars

C12_DispatchRule ==
    /\ [][\A pg \in Pages :
             (pagePc[pg] = "listing" /\ pagePc'[pg] = "gather") =>
                /\ links'[pg] # {}
                /\ \A i \in links'[pg] :
                      (i \notin res'[pg]) <=>
                          (~ignore_exists /\ i \in DOMAIN fetched_index)
                /\ res'[pg] \subseteq links'[pg]
                /\ \A i \in Ids :
                      /\ pc[<<pg, i>>] = "none"
                      /\ pc'[<<pg, i>>] = (IF i \in res'[pg] THEN "new" ELSE "none")]_vars
    /\ [][\A pg \in Pages :
             (pagePc[pg] = "gather" /\ pagePc'[pg] = "done") =>
                /\ summary'[pg].total = Cardinality(links[pg])
                /\ summary'[pg].skipped = Cardinality(links[pg] \ res[pg])
                /\ summary'[pg].downloaded + summary'[pg].failed = Cardinality(res[pg])
                /\ summary'[pg].downloaded =
                      Cardinality({i \in res[pg] : pc[<<pg, i>>] = "ok"})]_vars
    /\ [](\A pg \in Pages :
             summary[pg].total =
                 summary[pg].downloaded + summary[pg].failed + summary[pg].skipped)

\* a page has returned after it skipped one listed id and downloaded another
C12_Witness ==
    \E pg \in Pages :
        /\ pagePc[pg] = "done"
        /\ summary[pg].skipped = 1 /\ summary[pg].downloaded = 1
        /\ summary[pg].total = 2

\* ----------------------------------------------------------------- C13
\* C13: no step removes an id from the index; a step that changes the index
\* is the last step of a pipeline whose document is written, it sets the
\* entry of that pipeline's id and no other, and it is not a step of a
\* pipeline that failed.
C13_IndexAppendOnly ==
    [][/\ DOMAIN fetched_index \subseteq DOMAIN fetched_index'
       /\ fetched_index' # fetched_index =>
             \E t \in Pipelines :
                /\ pc[t] = "mdclose" /\ pc'[t] = "ok"
                /\ fetches[t] \in {1, 2}
                /\ IdOf(t) \in DOMAIN docs
                /\ docs[IdOf(t)] = Render(tree[t])
                /\ fetched_index' = Put(fetched_index, IdOf(t), TitleOf(IdOf(t)))
       /\ \A t \in Pipelines :
             (pc[t] \in Failed \cup {"raised"} \/ pc'[t] \in Failed \cup {"raised"})
                => \A i \in DOMAIN fetched_index' :
                      i = IdOf(t) => (i \in DOMAIN fetched_index
                                      /\ fetched_index'[i] = fetched_index[i])]_vars

\* one pipeline has added its entry to an empty index, another has failed
C13_Witness ==
    \E t, u \in Pipelines :
        /\ pc[t] = "ok" /\ pc[u] \in Failed
        /\ DOMAIN fetched_index = {IdOf(t)}

\* ----------------------------------------------------------------- C14
\* C14: the step in which a request ends blocked is the answer to its first
\* or to its second GET, it issues no GET, and it leaves the lock, the
\* generator and the cookie as they were; a blocked task issues no further
\* GET and never enters _update_cookie.
C14_BlockedTerminal ==
    [][\A t \in Tasks :
          /\ (pc[t] # "blocked" /\ pc'[t] = "blocked") =>
                /\ pc[t] \in {"fetch1", "fetch2"}
                /\ fetches' = fetches
                /\ UNCHANGED solverVars
          /\ pc[t] = "blocked" =>
                /\ pc'[t] \in {"blocked", "none"}
                /\ fetches'[t] \in {fetches[t], 0}
                /\ talk'[t] = 0]_vars

\* one pipeline was blocked on its first request, and one on its second,
\* after a solve that set the cookie
C14_Witness ==
    \E t, u \in Pipelines :
        /\ pc[t] = "blocked" /\ fetches[t] = 1
        /\ pc[u] = "blocked" /\ fetches[u] = 2
        /\ cookie # << >>

\* ----------------------------------------------------------------- C15
\* C15: when the document of an article is serialized, the element of
\* every image task that failed is not in the tree.
C15_FailedElementRemoved ==
    \A t \in Pipelines :
        pc[t] \in {"mdwrite", "mdclose", "ok"} =>
            \A i \in ImgAt(t, "failed") : tree[t][i].st = "gone"

\* ----------------------------------------------------------------- C16
\* the code cards of a pipeline's article, and its image tasks that have
\* taken a step
CodeCards(t) == {i \in DOMAIN tree[t] : content[IdOf(t)][i].tag = "codeblock"}
Stepped(t) == {i \in DOMAIN imgPc[t] : imgPc[t][i] \notin {"none", "start"}}
Serializing(t) == pc[t] \in {"mdwrite", "mdclose", "ok"}

\* C16: once an image task of an article has taken a step, or an element
\* of its tree is no longer the original one, every code card has been
\* rewritten or removed; from the opening of the .md file on, every image
\* task has ended and the tree does not change; and the index entry is set
\* by a pipeline whose document is written.
C16_PhaseOrdering ==
    /\ [](\A t \in Pipelines :
             /\ (Stepped(t) # {} \/ \E i \in DOMAIN tree[t] \ CodeCards(t) :
                                        tree[t][i].st = "img")
                   => \A j \in CodeCards(t) : tree[t][j].st \in {"pre", "gone"}
             /\ Serializing(t) =>
                   \A i \in DOMAIN imgPc[t] : imgPc[t][i] \in ImgTerminal)
    /\ [][\A t \in Pipelines :
             /\ (Serializing(t) /\ pc'[t] # "none") =>
                   (tree'[t] = tree[t] /\ imgPc'[t] = imgPc[t])
             /\ (pc[t] = "images" /\ pc'[t] \notin {"images", "none"}) => pc'[t] = "mdwrite"
             /\ (pc[t] = "mdwrite" /\ pc'[t] \notin {"mdwrite", "none"}) =>
                   (pc'[t] = "mdclose" /\ fetched_index' = fetched_index
                    /\ docs'[IdOf(t)] = Render(tree[t]))
             /\ (pc[t] = "mdclose" /\ pc'[t] \notin {"mdclose", "none"}) =>
                   (pc'[t] = "ok" /\ docs' = docs
                    /\ IdOf(t) \in DOMAIN fetched_index')]_vars

\* an image task is writing its file next to a code card already rewritten
\* and an image task still to start
C16_Witness ==
    \E t \in Pipelines :
        /\ pc[t] = "images"
        /\ ImgAt(t, "open") # {} /\ ImgAt(t, "start") # {}
        /\ \E j \in CodeCards(t) : tree[t][j].st = "pre"

\* ----------------------------------------------------------------- C17
\* C17: a task that takes the lock either starts a new generator or writes
\* its token to a generator that is alive: after the generator has exited
\* by itself, the next solve does not use it.
C17_CrashResets ==
    [][\A t \in Tasks :
          (pc[t] = "lockwait" /\ pc'[t] \notin {"lockwait", "none"}) =>
              \/ pc'[t] = "spawn"
              \/ pc'[t] = "read" /\ procState[talk'[t]] = "alive"]_vars

\* ----------------------------------------------------------------- C18
\* C18: when close() has returned and main ends, every generator that was
\* started has exited and been awaited and _cookie_proc is None; close()
\* kills only after its wait for the terminated process timed out.
C18_TeardownComplete ==
    [][/\ (mainPc = "closing" /\ mainPc' = "exit") =>
             /\ cookie_proc' = 0
             /\ \A p \in Procs : procState'[p] \in {"unborn", "reaped"}
       /\ mainPc' = "close_kill" => mainPc \in {"close_term", "close_kill"}
       /\ \A t \in Tasks : pc'[t] = "kill" => pc[t] \in {"term", "kill"}]_vars

\* ----------------------------------------------------------------- C19
\* The event loop runs every callback that is ready, and every await on the
\* network, a file or the generator returns, raises or times out: a step
\* that stays possible is eventually taken.
SpecLive == Spec /\ WF_vars(Next)

\* main has ended, no task is left, and every permit and the lock are free
AllReleased ==
    /\ page_sem = page_limit
    /\ news_sem = limit
    /\ image_sem = ImageSemFactor * limit
    /\ ~cookie_proc_lock
Finished ==
    /\ mainPc = "exit"
    /\ \A t \in Tasks : pc[t] = "none"
    /\ \A pg \in Pages : pagePc[pg] \in PageTerminal
    /\ AllReleased

PipelinesOf(i) == {t \in Pipelines : IdOf(t) = i /\ pc[t] # "none"}

\* C20: with ignore_exists off, an article id never has two pipelines.
C20_NoDuplicatePipeline ==
    ~ignore_exists => \A i \in Ids : Cardinality(PipelinesOf(i)) <= 1

====
